---------------------------- MODULE Spec2Model ----------------------------
(***************************************************************************)
(* A model of ics_repair.py: the block extractor (read_file_chunks), the   *)
(* series classifier and merger (series_key, process_calendars) and the    *)
(* file repair orchestrator (process_file, process_folder).                *)
(*                                                                         *)
(* Three specifications share the variables:                               *)
(*   SpecCal   - process_calendars on bounded sequences of parsed blocks   *)
(*   SpecScan  - the scanning loop of read_file_chunks on bounded bytes    *)
(*   SpecFile  - process_file / process_folder over a small directory      *)
(***************************************************************************)
EXTENDS Integers, Sequences, FiniteSets, TLC

VARIABLES
    \* --- SpecCal ---
    calendars,   \* the List[Calendar] handed to process_calendars
    merged,      \* result of process_calendars(calendars)
    merged2,     \* result of process_calendars on the calendar in merged
    cpc,         \* "input" | "merged" | "again" | "off"
    \* --- SpecScan ---
    pieces,      \* the file on disk, as the fragments it was written from
    raw,         \* the bytes read from the file
    start,       \* the local `start` of read_file_chunks
    chunks,      \* the local `chunks`, each a <<first, last>> byte range
    spc,         \* "build" | "loop" | "done" | "off"
    \* --- SpecFile ---
    fs,          \* path -> content of the file at that path
    bk,          \* path -> content of its '.backup' sibling
    fpc,         \* position inside process_folder / process_file
    todo,        \* entries iterdir() has still to yield
    cur,         \* the entry process_file is working on
    fixed_cal,   \* the local `fixed_cal` of process_file
    hist         \* history of the run (what happened to each path)

vars == <<calendars, merged, merged2, cpc, pieces, raw, start, chunks, spc,
          fs, bk, fpc, todo, cur, fixed_cal, hist>>

calVars  == <<calendars, merged, merged2, cpc>>
scanVars == <<pieces, raw, start, chunks, spc>>
fileVars == <<fs, bk, fpc, todo, cur, fixed_cal, hist>>

-----------------------------------------------------------------------------
(* Bounds *)

MaxEvents == 3
MaxBlocks == 2
MaxPieces == 5
MaxPasses == 2

-----------------------------------------------------------------------------
(* Generic helpers on sequences *)

Range(s) == {s[i] : i \in 1..Len(s)}

RECURSIVE Flatten(_)
Flatten(ss) == IF ss = <<>> THEN <<>> ELSE Head(ss) \o Flatten(Tail(ss))

-----------------------------------------------------------------------------
(* Temporal values: a calendar date, or a datetime that is naive or carries *)
(* a UTC offset.  The unit is one hour; a date d is the day number.         *)

NoTime == [kind |-> "none", v |-> 0, aware |-> FALSE, off |-> 0]
Date(d) == [kind |-> "date", v |-> d, aware |-> FALSE, off |-> 0]
Naive(h) == [kind |-> "datetime", v |-> h, aware |-> FALSE, off |-> 0]
Aware(h, o) == [kind |-> "datetime", v |-> h, aware |-> TRUE, off |-> o]

\* truthiness of ev.get('DTSTART') and friends: the property is present
Present(t) == t.kind # "none"

\* datetime.combine(d, datetime.min.time(), tzinfo=other.tzinfo)
Combine(d, other) ==
    [kind |-> "datetime", v |-> 24 * d.v, aware |-> other.aware, off |-> other.off]

\* .dt.isoformat(): 'YYYY-MM-DD' for a date, 'YYYY-MM-DDTHH:MM:SS' for a
\* naive datetime, with '+HH:MM' appended for an aware one
isoformat(t) ==
    IF t.kind = "date"
    THEN [day |-> t.v, time |-> <<>>, zone |-> <<>>]
    ELSE [day |-> t.v \div 24, time |-> <<t.v % 24>>,
          zone |-> IF t.aware THEN <<t.off>> ELSE <<>>]

\* A timedelta in hours, or None
NoDuration == [def |-> FALSE, h |-> 0]
Hours(n) == [def |-> TRUE, h |-> n]

-----------------------------------------------------------------------------
(* Text: a string is a sequence of one-character strings *)

IsSpace(c) == c = " "

RECURSIVE lstrip(_)
lstrip(s) == IF s # <<>> /\ IsSpace(Head(s)) THEN lstrip(Tail(s)) ELSE s

RECURSIVE rstrip(_)
rstrip(s) ==
    IF s # <<>> /\ IsSpace(s[Len(s)]) THEN rstrip(SubSeq(s, 1, Len(s) - 1)) ELSE s

strip(s) == rstrip(lstrip(s))

LowerChar(c) ==
    CASE c = "A" -> "a"
      [] c = "B" -> "b"
      [] c = "C" -> "c"
      [] c = "I" -> "i"
      [] c = "N" -> "n"
      [] c = "R" -> "r"
      [] c = "S" -> "s"
      [] OTHER -> c

\* .replace(' ', '_').lower()
ReplaceLower(s) == [i \in 1..Len(s) |-> IF s[i] = " " THEN "_" ELSE LowerChar(s[i])]

Digits == <<"0", "1", "2", "3", "4", "5", "6", "7", "8", "9">>

RECURSIVE NatStr(_)
NatStr(n) == IF n < 10 THEN <<Digits[n + 1]>> ELSE NatStr(n \div 10) \o <<Digits[(n % 10) + 1]>>

IntStr(n) == IF n < 0 THEN <<"-">> \o NatStr(0 - n) ELSE NatStr(n)

\* str(duration): 'None', 'H:00:00' or 'D day(s), H:00:00' (days floor-normalised)
DurationStr(d) ==
    IF ~d.def THEN <<"N", "o", "n", "e">>
    ELSE LET days == d.h \div 24
             rest == d.h % 24
             dayPart == IF days = 0 THEN <<>>
                        ELSE IntStr(days) \o <<" ", "d", "a", "y">>
                             \o (IF days \in {1, -1} THEN <<>> ELSE <<"s">>)
                             \o <<",", " ">>
         IN  dayPart \o NatStr(rest) \o <<":", "0", "0", ":", "0", "0">>

-----------------------------------------------------------------------------
(* Events.  A property that is absent is <<>> (text), NoTime (temporal) or  *)
(* FALSE (RRULE).  An absent UID and an empty UID are both falsy for the    *)
(* code (`if not uid`) and are both <<>> here.                              *)

Ev(s, l, ds, de, u, r, rid) ==
    [summary |-> s, location |-> l, dtstart |-> ds, dtend |-> de,
     uid |-> u, rrule |-> r, recid |-> rid]

\* dtend - dtstart after the promotion of a date bound; a naive and an aware
\* datetime do not subtract (TypeError), which the except turns into timedelta(0)
Subtract(dtend, dtstart) ==
    IF dtend.kind = "date" /\ dtstart.kind = "date"
    THEN Hours(24 * (dtend.v - dtstart.v))
    ELSE IF dtend.aware # dtstart.aware
         THEN Hours(0)
         ELSE Hours((dtend.v - dtend.off) - (dtstart.v - dtstart.off))

series_key(ev) ==
    LET is_start_date == ev.dtstart.kind = "date"
        is_end_date == ev.dtend.kind = "date"
        dtstart == IF is_start_date /\ ~is_end_date
                   THEN Combine(ev.dtstart, ev.dtend) ELSE ev.dtstart
        dtend == IF ~is_start_date /\ is_end_date
                 THEN Combine(ev.dtend, ev.dtstart) ELSE ev.dtend
    IN  [summary |-> strip(ev.summary),
         location |-> strip(ev.location),
         duration |-> IF Present(ev.dtstart) /\ Present(ev.dtend)
                      THEN Subtract(dtend, dtstart) ELSE NoDuration]

\* all_events: every VEVENT of every calendar, in block order then event order
all_events(cals) == Flatten(cals)

\* the keys of `groups` in insertion order (a dict keeps first-insertion order)
RECURSIVE group_keys(_, _)
group_keys(all, acc) ==
    IF all = <<>> THEN acc
    ELSE LET k == series_key(Head(all))
         IN  group_keys(Tail(all), IF k \in Range(acc) THEN acc ELSE Append(acc, k))

\* groups[key], as the positions in all_events of its events, in append order
RECURSIVE positions(_, _, _)
positions(all, key, i) ==
    IF i > Len(all) THEN <<>>
    ELSE (IF series_key(all[i]) = key THEN <<i>> ELSE <<>>) \o positions(all, key, i + 1)

ev_list(all, key) == positions(all, key, 1)

\* mutant: the first event of the group is the master, RRULE or not
master_first(all, key) == ev_list(all, key)[1]

\* lines 111-118: the first event of the group carrying RRULE, else the first
master(all, key) ==
    LET l == ev_list(all, key)
        withRule == {n \in 1..Len(l) : all[l[n]].rrule}
    IN  IF withRule # {}
        THEN l[CHOOSE n \in withRule : \A m \in withRule : n <= m]
        ELSE l[1]

\* lines 122-124
synth_uid(key) ==
    ReplaceLower(key.summary \o <<"-">> \o key.location \o <<"-">>
                 \o DurationStr(key.duration))
    \o <<"@fixed.by.script">>

\* mutant: the uid is always synthesized, the master's own UID is not read
group_uid_synth(all, key) == synth_uid(key)

\* lines 120-125: the uid of the group
group_uid(all, key) ==
    LET m == all[master(all, key)]
    IN  IF m.uid # <<>> THEN m.uid ELSE synth_uid(key)

\* mutant: the uid of the group is given only to the events that have none
assigned_uid_keep(all, i) ==
    IF all[i].uid # <<>> THEN all[i].uid ELSE group_uid(all, series_key(all[i]))

\* lines 127-128: the UID event i carries after the loop over the groups
assigned_uid(all, i) == group_uid(all, series_key(all[i]))

\* final_events (lines 109-129), as positions in all_events: group after group
RECURSIVE concat_groups(_, _)
concat_groups(all, keys) ==
    IF keys = <<>> THEN <<>>
    ELSE ev_list(all, Head(keys)) \o concat_groups(all, Tail(keys))

\* mutant: the events are visited in flattening order, not group after group
final_events_flat(all) == [i \in 1..Len(all) |-> i]

final_events(all) == concat_groups(all, group_keys(all, <<>>))

\* mutant: RECURRENCE-ID is not looked at
event_signature_date_start(ev) == isoformat(ev.dtstart)

\* lines 137-141
event_signature_date(ev) ==
    IF Present(ev.recid) THEN isoformat(ev.recid) ELSE isoformat(ev.dtstart)

\* mutant: the signature is taken from the UID the event had on input
event_signature_stale(all, i) ==
    [uid |-> all[i].uid, date |-> event_signature_date(all[i])]

\* line 143
event_signature(all, i) ==
    [uid |-> assigned_uid(all, i), date |-> event_signature_date(all[i])]

\* lines 131-147: the positions of the events added to `merged`, in order
RECURSIVE dedup(_, _, _, _)
dedup(all, order, added_events, out) ==
    IF order = <<>> THEN out
    ELSE LET i == Head(order)
             sig == event_signature(all, i)
         IN  IF ~Present(all[i].dtstart)
             THEN dedup(all, Tail(order), added_events, out)
             ELSE IF sig \in added_events
                  THEN dedup(all, Tail(order), added_events, out)
                  ELSE dedup(all, Tail(order), added_events \cup {sig}, Append(out, i))

kept_positions(all) == dedup(all, final_events(all), {}, <<>>)

\* the VEVENT components of the calendar process_calendars returns; isNone is
\* the `return None` of line 90
process_calendars(cals) ==
    IF cals = <<>> THEN [isNone |-> TRUE, events |-> <<>>]
    ELSE LET all == all_events(cals)
             kept == kept_positions(all)
         IN  [isNone |-> FALSE,
              events |-> [j \in 1..Len(kept) |->
                            [all[kept[j]] EXCEPT !.uid = assigned_uid(all, kept[j])]]]

-----------------------------------------------------------------------------
(* SpecCal: the input of process_calendars is built event by event and      *)
(* block by block; the merger runs on it, and then once more on its own     *)
(* output (the second repair of an already repaired file).                  *)

a_ == <<"a">>
A_ == <<"A">>
X_ == <<"X">>
Y_ == <<"Y">>

\* plain; own UID on another day; RRULE master with a UID and a padded
\* summary; RRULE master without UID, all-day start; exception of the 10:00
\* occurrence; another series with the UID X, a location and a DTEND that
\* does not subtract; an event without DTSTART; a summary in another case
EventPool ==
    { Ev(a_, <<>>, Naive(34), Naive(35), <<>>, FALSE, NoTime),
      Ev(a_, <<>>, Naive(58), Naive(59), X_, FALSE, NoTime),
      Ev(<<" ", "a">>, <<>>, Naive(34), Naive(35), Y_, TRUE, NoTime),
      Ev(a_, <<>>, Date(1), Naive(25), <<>>, TRUE, NoTime),
      Ev(a_, <<>>, Naive(36), Naive(37), Y_, FALSE, Naive(34)),
      Ev(A_, <<"R", " ">>, Naive(34), Aware(35, 0), X_, FALSE, NoTime),
      Ev(A_, <<>>, NoTime, NoTime, <<>>, FALSE, NoTime),
      Ev(A_, <<>>, Naive(34), Naive(35), <<>>, FALSE, NoTime) }

NoCalendar == [isNone |-> TRUE, events |-> <<>>]

ScanOff == pieces = <<>> /\ raw = <<>> /\ start = 0 /\ chunks = <<>> /\ spc = "off"
FileOff == fs = <<>> /\ bk = <<>> /\ fpc = "off" /\ todo = <<>> /\ cur = 0
           /\ fixed_cal = NoCalendar /\ hist = <<>>
CalOff == calendars = <<>> /\ merged = NoCalendar /\ merged2 = NoCalendar /\ cpc = "off"

InitCal ==
    /\ calendars = <<>>
    /\ merged = NoCalendar
    /\ merged2 = NoCalendar
    /\ cpc = "input"
    /\ ScanOff
    /\ FileOff

\* the parser yields one more calendar block; its events follow
NewBlock ==
    /\ cpc = "input"
    /\ Len(calendars) < MaxBlocks
    /\ calendars # <<>> => calendars[Len(calendars)] # <<>>
    /\ calendars' = Append(calendars, <<>>)
    /\ UNCHANGED <<merged, merged2, cpc, scanVars, fileVars>>

\* the parser yields one more VEVENT of the last block
AddEvent(e) ==
    /\ cpc = "input"
    /\ calendars # <<>>
    /\ Len(all_events(calendars)) < MaxEvents
    /\ calendars' = [calendars EXCEPT ![Len(calendars)] = Append(@, e)]
    /\ UNCHANGED <<merged, merged2, cpc, scanVars, fileVars>>

\* fixed_cal = process_calendars(calendars)
Repair ==
    /\ cpc = "input"
    /\ merged' = process_calendars(calendars)
    /\ cpc' = "merged"
    /\ UNCHANGED <<calendars, merged2, scanVars, fileVars>>

\* the repaired file holds the one calendar `merged`; it is repaired again
RepairAgain ==
    /\ cpc = "merged"
    /\ ~merged.isNone
    /\ merged2' = process_calendars(<<merged.events>>)
    /\ cpc' = "again"
    /\ UNCHANGED <<calendars, merged, scanVars, fileVars>>

NextCal ==
    \/ NewBlock
    \/ \E e \in EventPool : AddEvent(e)
    \/ Repair
    \/ RepairAgain

SpecCal == InitCal /\ [][NextCal]_vars

-----------------------------------------------------------------------------
(* SpecScan: read_file_chunks.  The file is written fragment by fragment,   *)
(* read whole, and scanned; every pass through the `while True` body is one *)
(* step.  Positions are 0-based as in Python; a chunk <<i, j>> is the slice *)
(* raw[i:j].                                                                *)

marker == <<"B", "E", "G", "I", "N", ":", "V", "C", "A", "L", "E", "N", "D", "A", "R">>
end_marker == <<"E", "N", "D", ":", "V", "C", "A", "L", "E", "N", "D", "A", "R">>

\* whether bytes[i : i + len(sub)] == sub
MatchAt(bytes, sub, i) ==
    /\ i + Len(sub) <= Len(bytes)
    /\ \A j \in 1..Len(sub) : bytes[i + j] = sub[j]

\* bytes.find(sub, from): the lowest position >= from where sub occurs, or -1
find(bytes, sub, from) ==
    LET hits == {i \in from..(Len(bytes) - Len(sub)) : MatchAt(bytes, sub, i)}
    IN  IF hits = {} THEN -1 ELSE CHOOSE i \in hits : \A j \in hits : i <= j

\* mutant: the end marker is searched from the beginning of the bytes
find_end_from_zero(bytes, idx) == find(bytes, end_marker, 0)

\* line 37: end = raw.find(end_marker, idx)
find_end(bytes, idx) == find(bytes, end_marker, idx)

\* a start marker, an end marker, junk, and two fragments that make a start
\* marker only together ("BEGIN:VCAL" + "ENDAR") or the end marker with the
\* tail of the first glued to it
Fragments ==
    { marker, end_marker, <<"x">>,
      <<"B", "E", "G", "I", "N", ":", "V", "C", "A", "L">>,
      <<"E", "N", "D", "A", "R">> }

InitScan ==
    /\ pieces = <<>>
    /\ raw = <<>>
    /\ start = 0
    /\ chunks = <<>>
    /\ spc = "build"
    /\ CalOff
    /\ FileOff

\* the exporter appends one more fragment to the file
WriteFragment(f) ==
    /\ spc = "build"
    /\ Len(pieces) < MaxPieces
    /\ pieces' = Append(pieces, f)
    /\ UNCHANGED <<raw, start, chunks, spc, calVars, fileVars>>

\* lines 21-31: raw = f.read(); chunks = []; start = 0
ReadFile ==
    /\ spc = "build"
    /\ raw' = Flatten(pieces)
    /\ start' = 0
    /\ chunks' = <<>>
    /\ spc' = "loop"
    /\ UNCHANGED <<pieces, calVars, fileVars>>

\* lines 34-36: no start marker at or after `start`
ScanNoStart ==
    /\ spc = "loop"
    /\ find(raw, marker, start) = -1
    /\ spc' = "done"
    /\ UNCHANGED <<pieces, raw, start, chunks, calVars, fileVars>>

\* lines 37-40: a start marker, and no end marker after it
ScanNoEnd ==
    /\ spc = "loop"
    /\ LET idx == find(raw, marker, start)
       IN  idx # -1 /\ find_end(raw, idx) = -1
    /\ spc' = "done"
    /\ UNCHANGED <<pieces, raw, start, chunks, calVars, fileVars>>

\* lines 42-44: the chunk is appended and the cursor moves past the end marker
ScanEmit ==
    /\ spc = "loop"
    /\ LET idx == find(raw, marker, start)
           end == find_end(raw, idx)
       IN  /\ idx # -1 /\ end # -1
           /\ chunks' = Append(chunks, <<idx, end + Len(end_marker)>>)
           /\ start' = end + Len(end_marker)
    /\ UNCHANGED <<pieces, raw, spc, calVars, fileVars>>

ScanStep == ScanNoStart \/ ScanNoEnd \/ ScanEmit

NextScan ==
    \/ \E f \in Fragments : WriteFragment(f)
    \/ ReadFile
    \/ ScanNoStart
    \/ ScanNoEnd
    \/ ScanEmit

\* the loop is synchronous code: once entered it keeps running
SpecScan == InitScan /\ [][NextScan]_vars /\ WF_vars(ScanStep)

-----------------------------------------------------------------------------
(* SpecFile: process_folder over a directory, pass after pass.  The content *)
(* of a file is the sequence of its blocks: a terminated block that parses  *)
(* (with its VEVENTs), a terminated block that does not parse, junk bytes   *)
(* outside any block, or a start marker with no end marker after it, which  *)
(* can only come last.  Every read, copy and write may fail.                *)

CalBlock(events) == [kind |-> "cal", events |-> events]
BadBlock == [kind |-> "bad", events |-> <<>>]
JunkBytes == [kind |-> "junk", events |-> <<>>]
OpenBlock == [kind |-> "open", events |-> <<>>]

\* what a copy or a write that failed half-way leaves: the beginning of the
\* bytes, without the closing END:VCALENDAR
Truncated == <<OpenBlock>>

\* the content of a path that does not exist
NoFile == <<[kind |-> "absent", events |-> <<>>]>>

\* lines 28-48 at block granularity: the terminated blocks in file order
RECURSIVE read_file_chunks(_)
read_file_chunks(content) ==
    IF content = <<>> \/ Head(content).kind = "open" THEN <<>>
    ELSE (IF Head(content).kind = "junk" THEN <<>> ELSE <<Head(content)>>)
         \o read_file_chunks(Tail(content))

\* lines 50-58: the chunks Calendar.from_ical accepts, as their VEVENT lists
RECURSIVE parse_chunks(_)
parse_chunks(chs) ==
    IF chs = <<>> THEN <<>>
    ELSE (IF Head(chs).kind = "cal" THEN <<Head(chs).events>> ELSE <<>>)
         \o parse_chunks(Tail(chs))

\* line 177: fixed_cal.to_ical(sorted=True), one VCALENDAR block
to_ical(cal) == <<CalBlock(cal.events)>>

\* the direct entries of the directory: a.ics, B.ICS, c.txt, and a
\* sub-directory named d.ics
Entries ==
    << [is_file |-> TRUE, suffix |-> <<".", "i", "c", "s">>],
       [is_file |-> TRUE, suffix |-> <<".", "I", "C", "S">>],
       [is_file |-> TRUE, suffix |-> <<".", "t", "x", "t">>],
       [is_file |-> FALSE, suffix |-> <<".", "i", "c", "s">>] >>

Paths == 1..Len(Entries)

\* mutant: the suffix is compared as it is spelled
is_ics_file_exact(e) == Entries[e].is_file /\ Entries[e].suffix = <<".", "i", "c", "s">>

\* line 190: entry.is_file() and entry.suffix.lower() == '.ics'
is_ics_file(e) ==
    /\ Entries[e].is_file
    /\ [i \in 1..Len(Entries[e].suffix) |-> LowerChar(Entries[e].suffix[i])]
         = <<".", "i", "c", "s">>

\* mutant: the copy is made with its arguments swapped
copy2_swapped(src, dst) == [src |-> dst, dst |-> dst]

\* line 169: shutil.copy2(file_path, backup_path) that succeeds
copy2(src, dst) == [src |-> src, dst |-> src]

\* mutant: the function goes on to the overwrite whether the copy failed or not
after_backup_always(ok) == "write"

\* lines 167-175: the return of the except branch of the backup
after_backup(ok) == IF ok THEN "write" ELSE "iter"

PlainEvent == Ev(a_, <<>>, Naive(34), Naive(35), <<>>, FALSE, NoTime)
OwnUIDEvent == Ev(a_, <<>>, Naive(58), Naive(59), X_, FALSE, NoTime)

\* two copies of one block around junk; a block that does not parse, a good
\* one and an unterminated one; junk only; one block that does not parse; an
\* unterminated block only; a file that is already clean
InitialContents ==
    { <<CalBlock(<<PlainEvent>>), JunkBytes, CalBlock(<<PlainEvent>>)>>,
      <<BadBlock, CalBlock(<<OwnUIDEvent, PlainEvent>>), OpenBlock>>,
      <<JunkBytes>>,
      <<BadBlock>>,
      <<OpenBlock>>,
      <<CalBlock(<<OwnUIDEvent>>)>> }

OtherContent == <<CalBlock(<<PlainEvent>>), CalBlock(<<PlainEvent>>)>>

NoOutcome == [p \in Paths |-> "none"]
NoFlags == [p \in Paths |-> FALSE]

InitFile ==
    /\ fs \in {f \in [Paths -> InitialContents \cup {OtherContent, NoFile}] :
                 \A p \in Paths :
                    IF is_ics_file(p) THEN f[p] \in InitialContents
                    ELSE IF Entries[p].is_file THEN f[p] = OtherContent
                    ELSE f[p] = NoFile}
    /\ bk = [p \in Paths |-> NoFile]
    /\ fpc = "idle"
    /\ todo = <<>>
    /\ cur = 0
    /\ fixed_cal = NoCalendar
    /\ hist = [orig |-> fs, before |-> fs, bkBefore |-> bk, outcome |-> NoOutcome,
               backedUp |-> NoFlags, opened |-> NoFlags, passes |-> 0]
    /\ CalOff
    /\ ScanOff

IterOrders == {<<1, 2, 3, 4>>, <<4, 2, 3, 1>>}

\* lines 182-189: process_folder starts; iterdir() yields in some order
StartFolder(order) ==
    /\ fpc \in {"idle", "done"}
    /\ hist.passes < MaxPasses
    /\ todo' = order
    /\ fpc' = "iter"
    /\ hist' = [hist EXCEPT !.before = fs, !.bkBefore = bk, !.outcome = NoOutcome,
                            !.backedUp = NoFlags, !.opened = NoFlags,
                            !.passes = @ + 1]
    /\ UNCHANGED <<fs, bk, cur, fixed_cal, calVars, scanVars>>

\* line 190: the entry is not an .ics file
SkipEntry ==
    /\ fpc = "iter" /\ todo # <<>>
    /\ ~is_ics_file(Head(todo))
    /\ todo' = Tail(todo)
    /\ UNCHANGED <<fs, bk, fpc, cur, fixed_cal, hist, calVars, scanVars>>

\* lines 190-192: process_file(entry) is called
EnterFile ==
    /\ fpc = "iter" /\ todo # <<>>
    /\ is_ics_file(Head(todo))
    /\ cur' = Head(todo)
    /\ todo' = Tail(todo)
    /\ fpc' = "file"
    /\ UNCHANGED <<fs, bk, fixed_cal, hist, calVars, scanVars>>

\* lines 189, 194: the loop is over
FolderDone ==
    /\ fpc = "iter" /\ todo = <<>>
    /\ fpc' = "done"
    /\ UNCHANGED <<fs, bk, todo, cur, fixed_cal, hist, calVars, scanVars>>

Return(outcome) ==
    /\ fpc' = "iter"
    /\ cur' = 0
    /\ hist' = [hist EXCEPT !.outcome[cur] = outcome]

\* lines 21-26, 154: the read fails, read_file_chunks returns []
ReadFails ==
    /\ fpc = "file"
    /\ Return("readfail")
    /\ UNCHANGED <<fs, bk, todo, fixed_cal, calVars, scanVars>>

\* lines 153-154: no chunk
NoChunks ==
    /\ fpc = "file"
    /\ read_file_chunks(fs[cur]) = <<>>
    /\ Return("nochunks")
    /\ UNCHANGED <<fs, bk, todo, fixed_cal, calVars, scanVars>>

\* lines 156-159: no chunk parses
NoCalendars ==
    /\ fpc = "file"
    /\ read_file_chunks(fs[cur]) # <<>>
    /\ parse_chunks(read_file_chunks(fs[cur])) = <<>>
    /\ Return("noparse")
    /\ UNCHANGED <<fs, bk, todo, fixed_cal, calVars, scanVars>>

\* lines 161-165: fixed_cal = process_calendars(calendars)
Merge ==
    /\ fpc = "file"
    /\ LET cals == parse_chunks(read_file_chunks(fs[cur]))
       IN  /\ cals # <<>>
           /\ fixed_cal' = process_calendars(cals)
           /\ IF fixed_cal'.isNone
              THEN Return("nocalendar")
              ELSE fpc' = "backup" /\ UNCHANGED <<cur, hist>>
    /\ UNCHANGED <<fs, bk, todo, calVars, scanVars>>

\* lines 168-170: the copy to the '.backup' sibling succeeds
BackupOK ==
    /\ fpc = "backup"
    /\ LET c == copy2(fs[cur], bk[cur])
       IN  /\ fs' = [fs EXCEPT ![cur] = c.src]
           /\ bk' = [bk EXCEPT ![cur] = c.dst]
    /\ fpc' = after_backup(TRUE)
    /\ hist' = [hist EXCEPT !.backedUp[cur] = TRUE]
    /\ UNCHANGED <<todo, cur, fixed_cal, calVars, scanVars>>

\* lines 171-173: the copy raises, before it wrote anything or half-way
BackupFails(partial) ==
    /\ fpc = "backup"
    /\ bk' = IF partial THEN [bk EXCEPT ![cur] = Truncated] ELSE bk
    /\ fpc' = after_backup(FALSE)
    /\ IF after_backup(FALSE) = "iter"
       THEN /\ cur' = 0
            /\ hist' = [hist EXCEPT !.outcome[cur] = "backupfail"]
       ELSE UNCHANGED <<cur, hist>>
    /\ UNCHANGED <<fs, todo, fixed_cal, calVars, scanVars>>

\* lines 176-178: the file is opened for writing and the bytes are written
WriteOK ==
    /\ fpc = "write"
    /\ fs' = [fs EXCEPT ![cur] = to_ical(fixed_cal)]
    /\ fpc' = "iter"
    /\ cur' = 0
    /\ hist' = [hist EXCEPT !.outcome[cur] = "ok", !.opened[cur] = TRUE]
    /\ UNCHANGED <<bk, todo, fixed_cal, calVars, scanVars>>

\* lines 179-180: open() raises (the file is as it was), or the file was
\* opened, hence emptied, and to_ical or write raises
WriteFails(was_opened) ==
    /\ fpc = "write"
    /\ fs' = IF was_opened THEN [fs EXCEPT ![cur] = Truncated] ELSE fs
    /\ fpc' = "iter"
    /\ cur' = 0
    /\ hist' = [hist EXCEPT !.outcome[cur] = "writefail", !.opened[cur] = was_opened]
    /\ UNCHANGED <<bk, todo, fixed_cal, calVars, scanVars>>

NextFile ==
    \/ \E order \in IterOrders : StartFolder(order)
    \/ SkipEntry
    \/ EnterFile
    \/ FolderDone
    \/ ReadFails
    \/ NoChunks
    \/ NoCalendars
    \/ Merge
    \/ BackupOK
    \/ \E partial \in BOOLEAN : BackupFails(partial)
    \/ WriteOK
    \/ \E was_opened \in BOOLEAN : WriteFails(was_opened)

SpecFile == InitFile /\ [][NextFile]_vars

-----------------------------------------------------------------------------
(* Properties of read_file_chunks *)

\* the end of the slice before the k-th one (0 for the first)
PrevEnd(k) == IF k = 1 THEN 0 ELSE chunks[k - 1][2]

\* the k-th slice starts at the first start marker at or after the end of the
\* previous slice, and ends with the first end marker after that start marker
SliceOK(k) ==
    LET first == chunks[k][1]
        last == chunks[k][2]
    IN  /\ PrevEnd(k) <= first
        /\ MatchAt(raw, marker, first)
        /\ \A i \in PrevEnd(k)..(first - 1) : ~MatchAt(raw, marker, i)
        /\ first + Len(marker) <= last - Len(end_marker)
        /\ MatchAt(raw, end_marker, last - Len(end_marker))
        /\ \A i \in first..(last - Len(end_marker) - 1) : ~MatchAt(raw, end_marker, i)
        /\ last <= Len(raw)

\* where the scan stands once it has returned: after the last slice
LastEnd == PrevEnd(Len(chunks) + 1)

\* the scan stopped for one of the two reasons: no start marker is left, or
\* the next start marker has no end marker after it
StoppedRight ==
    LET starts == {i \in LastEnd..Len(raw) : MatchAt(raw, marker, i)}
    IN  \/ starts = {}
        \/ LET s0 == CHOOSE i \in starts : \A j \in starts : i <= j
           IN  \A i \in s0..Len(raw) : ~MatchAt(raw, end_marker, i)

SlicesOK ==
    /\ spc \in {"loop", "done"} =>
          /\ \A k \in 1..Len(chunks) : SliceOK(k)
          /\ start = LastEnd
    /\ spc = "done" => StoppedRight

\* C9 - Block extraction: the scanning loop terminates; the slices are in
\* increasing position and do not overlap; each starts at the first start
\* marker at or after the end of the previous slice and ends with the first
\* end marker after that start marker; an unterminated start marker yields no
\* slice and stops the scan, the earlier slices being kept.
BlockExtraction == []SlicesOK /\ ((spc = "loop") ~> (spc = "done"))

\* a slice that does not start the bytes was returned, and the scan stopped
\* at a later start marker that has no end marker; the slice was kept
BlockExtractionWitness ==
    /\ spc = "done"
    /\ Len(chunks) >= 1
    /\ chunks[1][1] > 0
    /\ \E i \in (LastEnd + 1)..Len(raw) : MatchAt(raw, marker, i)

-----------------------------------------------------------------------------
(* Properties of process_calendars *)

InputEvents == all_events(calendars)
In == 1..Len(InputEvents)
Out == 1..Len(merged.events)

\* the effective date of an event: RECURRENCE-ID if present, else DTSTART
EffectiveDate(ev) == IF Present(ev.recid) THEN ev.recid ELSE ev.dtstart

EventSignature(ev) == [uid |-> ev.uid, date |-> EffectiveDate(ev)]

SignatureSet(cal) == {EventSignature(cal.events[i]) : i \in 1..Len(cal.events)}

\* C1 - UID uniformity: any two events of the returned calendar with equal
\* (summary, location, duration) as computed by series_key carry the same UID.
UIDUniformity ==
    cpc = "merged" =>
        \A i, j \in Out :
            series_key(merged.events[i]) = series_key(merged.events[j])
                => merged.events[i].uid = merged.events[j].uid

\* two events of one series reach the output although the input gave them
\* different UIDs
UIDUniformityWitness ==
    /\ cpc = "merged"
    /\ \E i, j \in Out :
          /\ i # j
          /\ series_key(merged.events[i]) = series_key(merged.events[j])
    /\ \E p, q \in In :
          /\ series_key(InputEvents[p]) = series_key(InputEvents[q])
          /\ Present(InputEvents[p].dtstart) /\ Present(InputEvents[q].dtstart)
          /\ EffectiveDate(InputEvents[p]) # EffectiveDate(InputEvents[q])
          /\ InputEvents[p].uid # <<>> /\ InputEvents[q].uid # <<>>
          /\ InputEvents[p].uid # InputEvents[q].uid

\* C2 - No duplicate signatures: no two distinct events of the returned
\* calendar have the same (UID, effective_date), and every one has a DTSTART.
NoDuplicateSignatures ==
    cpc = "merged" =>
        /\ \A i, j \in Out :
              i # j => EventSignature(merged.events[i]) # EventSignature(merged.events[j])
        /\ \A i \in Out : Present(merged.events[i].dtstart)

\* a duplicate was discarded (an exception whose RECURRENCE-ID equals the
\* DTSTART of another event of the series), an event without DTSTART was
\* dropped, and one event is left
NoDuplicateSignaturesWitness ==
    /\ cpc = "merged"
    /\ Len(merged.events) = 1
    /\ \E p \in In : ~Present(InputEvents[p].dtstart)
    /\ \E p, q \in In :
          /\ p # q
          /\ Present(InputEvents[p].recid) /\ ~Present(InputEvents[q].recid)
          /\ InputEvents[p].recid = InputEvents[q].dtstart
          /\ series_key(InputEvents[p]) = series_key(InputEvents[q])

\* the positions of the input events of the series `key`
Members(key) == {p \in In : series_key(InputEvents[p]) = key}
WithRule(key) == {p \in Members(key) : InputEvents[p].rrule}
SeriesKeys == {series_key(InputEvents[p]) : p \in In}

\* the UID taken from input event p: its own if it has one, else the synthesized
UIDFrom(p) ==
    IF InputEvents[p].uid # <<>> THEN InputEvents[p].uid
    ELSE synth_uid(series_key(InputEvents[p]))

\* C3 - Master preference: a series group with exactly one RRULE event gets the
\* UID taken from that event (its own, else the synthesized one) whatever its
\* position; a group with no RRULE event gets it from its first event.
MasterPreference ==
    cpc = "merged" =>
        \A key \in SeriesKeys :
            LET rr == WithRule(key)
                first == CHOOSE p \in Members(key) : \A q \in Members(key) : p <= q
                from == IF rr = {} THEN first ELSE CHOOSE p \in rr : TRUE
            IN  Cardinality(rr) <= 1 =>
                    \A i \in Out :
                        series_key(merged.events[i]) = key
                            => merged.events[i].uid = UIDFrom(from)

\* a group of three whose only RRULE event comes last and whose first event
\* carries another UID; two events of the group reach the output
MasterPreferenceWitness ==
    /\ cpc = "merged"
    /\ \E key \in SeriesKeys :
          /\ Cardinality(Members(key)) = 3
          /\ Cardinality(WithRule(key)) = 1
          /\ \E p \in Members(key), r \in WithRule(key) :
                /\ p < r
                /\ InputEvents[p].uid # <<>>
                /\ InputEvents[p].uid # UIDFrom(r)
          /\ Cardinality({i \in Out : series_key(merged.events[i]) = key}) >= 2

\* C5 - Idempotence: process_calendars applied to the single calendar it
\* produced returns the same events, with the same UIDs, in the same order,
\* and removes nothing.
Idempotence ==
    cpc = "again" =>
        /\ ~merged2.isNone
        /\ merged2.events = merged.events

\* the first run removed a duplicate and rewrote a UID, and left two events
\* for the second run
IdempotenceWitness ==
    /\ cpc = "again"
    /\ Len(merged.events) = 2
    /\ Cardinality({p \in In : Present(InputEvents[p].dtstart)}) = 3
    /\ \E p \in In, i \in Out :
          /\ [InputEvents[p] EXCEPT !.uid = <<>>] = [merged.events[i] EXCEPT !.uid = <<>>]
          /\ InputEvents[p].uid # <<>>
          /\ InputEvents[p].uid # merged.events[i].uid

\* the blocks of `calendars` in the order given by the permutation p
Permuted(p) == [i \in 1..Len(calendars) |-> calendars[p[i]]]

BlockPermutations == Permutations(1..Len(calendars))

\* C6 as stated - Order-insensitivity of grouping: every permutation of the
\* blocks yields the same set of EventSignatures (UID, effective_date).
OrderInsensitive ==
    cpc = "merged" =>
        \A p \in BlockPermutations :
            SignatureSet(process_calendars(Permuted(p))) = SignatureSet(merged)

\* the events one of which becomes the master of the series `key` under some
\* order of the blocks: the RRULE events if there are any, else all of them
Candidates(key) == IF WithRule(key) # {} THEN WithRule(key) ELSE Members(key)

\* all candidate masters of every series carry the same UID (or all none)
MastersAgree ==
    \A key \in SeriesKeys :
        \A p, q \in Candidates(key) : InputEvents[p].uid = InputEvents[q].uid

\* C6 as amended - every permutation of the blocks yields the same set of
\* EventSignatures provided that, in every series, the events that can become
\* its master (the RRULE events if there are any, else all) carry the same UID.
OrderInsensitiveWhenMastersAgree ==
    (cpc = "merged" /\ MastersAgree) =>
        \A p \in BlockPermutations :
            SignatureSet(process_calendars(Permuted(p))) = SignatureSet(merged)

\* two different non-empty blocks; a series spans both, its only RRULE event
\* is in the second block and an event of the first block has another UID
OrderInsensitiveWitness ==
    /\ cpc = "merged"
    /\ Len(calendars) = 2
    /\ calendars[1] # <<>> /\ calendars[2] # <<>>
    /\ MastersAgree
    /\ \E key \in SeriesKeys, r \in In, q \in In :
          /\ WithRule(key) = {r}
          /\ q \in Members(key)
          /\ q <= Len(calendars[1]) /\ r > Len(calendars[1])
          /\ InputEvents[q].uid # <<>>
          /\ InputEvents[q].uid # InputEvents[r].uid
          /\ Present(InputEvents[q].dtstart)
    /\ Len(merged.events) >= 2

\* the signature input event p has once the UIDs are unified
InputSignature(p) ==
    [uid |-> assigned_uid(InputEvents, p), date |-> EffectiveDate(InputEvents[p])]

HasStart(p) == Present(InputEvents[p].dtstart)

\* input event p as it is written to the output
Unified(p) == [InputEvents[p] EXCEPT !.uid = assigned_uid(InputEvents, p)]

\* flattening order: block order, then event order inside each block
FlatRank == [p \in In |-> p]

\* group order: the series in order of first appearance, and flattening order
\* inside a series
GroupRank ==
    LET key == [p \in In |-> series_key(InputEvents[p])]
        first == [p \in In |-> CHOOSE q \in In :
                     key[q] = key[p] /\ \A r \in 1..(q - 1) : key[r] # key[p]]
    IN  [p \in In |-> first[p] * (Len(InputEvents) + 1) + p]

\* the events kept when the events are visited by increasing rank: those with
\* a DTSTART that no earlier event with a DTSTART shares the signature of
KeptUnder(rank) ==
    LET sig == [p \in In |-> InputSignature(p)]
    IN  {p \in In : HasStart(p) /\ \A q \in In :
                        (HasStart(q) /\ rank[q] < rank[p]) => sig[q] # sig[p]}

\* the events of S as they are written to the output, by increasing rank
RECURSIVE InOrder(_, _)
InOrder(S, rank) ==
    IF S = {} THEN <<>>
    ELSE LET p == CHOOSE x \in S : \A y \in S : rank[x] <= rank[y]
         IN  <<Unified(p)>> \o InOrder(S \ {p}, rank)

DedupBy(rank) == InOrder(KeptUnder(rank), rank)

\* C8 as stated - Deduplication order: the events are visited in flattening
\* order across all groups, and among the events with the same
\* (UID, effective_date) the first in flattening order is the one kept.
DedupInFlatteningOrder ==
    cpc = "merged" =>
        merged.events = DedupBy(FlatRank)

\* C8 as amended - the events are visited group after group (the series in
\* order of first appearance, flattening order inside a series), and among
\* the events with the same (UID, effective_date) the first in that order is
\* the one kept.
DedupInGroupOrder ==
    cpc = "merged" =>
        merged.events = DedupBy(GroupRank)

\* two events of different series have the same signature, the one that is
\* first in flattening order is not the first in group order, and the two
\* differ in more than their UID
DedupOrderWitness ==
    /\ cpc = "merged"
    /\ \E p, q \in In :
          /\ HasStart(p) /\ HasStart(q)
          /\ InputSignature(p) = InputSignature(q)
          /\ FlatRank[p] < FlatRank[q] /\ GroupRank[q] < GroupRank[p]
          /\ Unified(p) # Unified(q)
          /\ q \in KeptUnder(GroupRank)
          /\ p \in KeptUnder(FlatRank)

-----------------------------------------------------------------------------
(* Properties of process_file and process_folder *)

\* C4 - Backup before overwrite: the original file is opened for overwriting
\* only after the copy to the '.backup' sibling has completed without error;
\* if the copy fails, process_file returns with the original content
\* unchanged and without attempting the overwrite.
BackupBeforeOverwrite ==
    fpc # "off" =>
        /\ \A p \in Paths : hist.opened[p] => hist.backedUp[p]
        /\ fpc = "write" =>
              /\ hist.backedUp[cur]
              /\ bk[cur] = hist.before[cur]
              /\ fs[cur] = hist.before[cur]
        /\ \A p \in Paths :
              hist.outcome[p] = "backupfail" =>
                  /\ fs[p] = hist.before[p]
                  /\ ~hist.opened[p]

\* in one pass a backup copy failed half-way and the file was left alone,
\* and another file was backed up and then overwritten
BackupBeforeOverwriteWitness ==
    /\ fpc = "done"
    /\ \E p, q \in Paths :
          /\ hist.outcome[p] = "backupfail"
          /\ bk[p] = Truncated
          /\ fs[p] = hist.before[p]
          /\ hist.outcome[q] = "ok"
          /\ hist.opened[q] /\ hist.backedUp[q]
          /\ fs[q] # hist.before[q]

\* whether the bytes hold a terminated block that parses
Usable(content) ==
    \E i \in 1..Len(content) :
        /\ content[i].kind = "cal"
        /\ \A j \in 1..(i - 1) : content[j].kind # "open"

\* the repaired content of the bytes
Repaired(content) ==
    to_ical(process_calendars(parse_chunks(read_file_chunks(content))))

IOFailures == {"readfail", "backupfail", "writefail"}

OriginalRecoverable ==
    fpc # "off" =>
        \A p \in Paths : is_ics_file(p) => hist.orig[p] \in {fs[p], bk[p]}

\* C10 as amended - after each process_file pass over a path (it may succeed,
\* fail at backup or fail at write), the content the file had before that
\* pass is still present in the file or in its '.backup' sibling; a later
\* pass replaces the backup, so the content before the first pass is not kept.
LastContentRecoverable ==
    fpc # "off" =>
        \A p \in Paths : is_ics_file(p) => hist.before[p] \in {fs[p], bk[p]}

\* a second pass over a repaired file failed at its write: the content from
\* before that pass is in the backup, the original content is nowhere
LastContentRecoverableWitness ==
    /\ fpc = "done"
    /\ hist.passes = 2
    /\ \E p \in Paths :
          /\ hist.outcome[p] = "writefail"
          /\ fs[p] = Truncated
          /\ bk[p] = hist.before[p]
          /\ hist.before[p] # hist.orig[p]
          /\ hist.orig[p] \notin {fs[p], bk[p]}

=============================================================================
